---- MODULE Spec2Model ----
(***************************************************************************)
(* Model of custom_components/hubspace/switch.py: the switch platform of   *)
(* the Hubspace integration.  It covers the two entity classes             *)
(* (HubspaceSwitch, HubspaceNightLightSwitch), their is_on getters and     *)
(* turn-on / turn-off commands, and async_setup_entry with its helper      *)
(* closures and RESOURCE_ADDED subscriptions.                              *)
(*                                                                         *)
(* Python values are modelled as strings: "True", "False", "None" for the  *)
(* results of getters, "raise" for an exception escaping a function.       *)
(***************************************************************************)
EXTENDS Integers, Sequences, FiniteSets, TLC

VARIABLES
    switchItems,   \* the switch controller's resources, in iteration order (ids)
    lightItems,    \* the light controller's resources, in iteration order (ids)
    switchOn,      \* switchOn[id]: resource.on of a Switch, an ordered dict
    lightRes,      \* lightRes[id]: the fields of a Light read by this platform
    phase,         \* "new" | "setup" | "unloaded": life cycle of the config entry
    subs,          \* controllers on which a RESOURCE_ADDED callback is subscribed
    onUnload,      \* unsubscribe handles given to config_entry.async_on_unload
    addCalls,      \* the calls of async_add_entities, each its list of entities
    requests,      \* bridge requests (set_state calls) in flight, oldest first
    lastCmd,       \* lastCmd[e]: last command issued on entity e ("none"|"on"|"off")
    pc,            \* position of the function harness: "call" | "done"
    ret,           \* result of has_night_light_capability / get_unique_entities
    testRet        \* result of the scan as written in the tests

vars == <<switchItems, lightItems, switchOn, lightRes, phase, subs, onUnload,
          addCalls, requests, lastCmd, pc, ret, testRet>>

---------------------------------------------------------------------------
(* Bounds                                                                  *)

\* longest light.functions list
MaxFuncs == 2
\* longest "values" list of one function descriptor
MaxValues == 2
\* most instance keys of one resource.on dict
MaxInstances == 2
\* most bridge requests in flight at once
MaxInFlight == 1

---------------------------------------------------------------------------
(* Data                                                                    *)

SwitchIds == {"s1", "s2"}
LightIds == {"l1", "l2"}

\* Keys of resource.on: the instance names, "None" standing for Python None.
Instances == {"None", "a", "b"}

\* Values of resource.on: a feature that is on, one that is off, or a falsy
\* entry (None instead of a feature object).
Features == {"on", "off", "falsy"}

\* Entries of a descriptor's "values" list: a dict named "white", a dict named
\* "night-light", or an entry that is no dict (value.get raises).
ValueEntries == {"white", "night-light", "nodict"}

SeqsUpTo(S, n) == UNION {[1..k -> S] : k \in 0..n}

\* A function descriptor of light.functions: either no dict at all ("bad":
\* func.get raises), or a dict with a functionClass and a "values" entry that
\* is absent ("missing"), None ("none") or a list ("list").
BadDescriptor == [kind |-> "bad", fc |-> "none", vkind |-> "missing", values |-> <<>>]

DictDescriptors ==
    {[kind |-> "dict", fc |-> c, vkind |-> "list", values |-> v] :
        c \in {"color-mode", "power"}, v \in SeqsUpTo(ValueEntries, MaxValues)}
    \cup {[kind |-> "dict", fc |-> c, vkind |-> k, values |-> <<>>] :
        c \in {"color-mode", "power"}, k \in {"missing", "none"}}

Descriptors == {BadDescriptor} \cup DictDescriptors

\* light.functions: the attribute is absent, None, or a list of descriptors.
FunctionsValues ==
    {[kind |-> "list", items |-> s] : s \in SeqsUpTo(Descriptors, MaxFuncs)}
    \cup {[kind |-> k, items |-> <<>>] : k \in {"missing", "none"}}

\* light.color_mode: attribute absent, None, an object without .mode, or an
\* object whose .mode is one of the color modes.
ColorModes == {"missing", "None", "nomode", "white", "color", "night-light"}

PyBool(b) == IF b THEN "True" ELSE "False"

---------------------------------------------------------------------------
(* has_night_light_capability                                              *)

\* for value in func.get("values", []): if value.get("name") == "night-light"
RECURSIVE ScanValues(_, _)
ScanValues(vs, j) ==
    IF j > Len(vs) THEN "exhausted"
    ELSE IF vs[j] = "nodict" THEN "raise"
    ELSE IF vs[j] = "night-light" THEN "found"
    ELSE ScanValues(vs, j + 1)

\* One descriptor of the outer loop: "raise", "found" or "next".
ScanDescriptor(f) ==
    IF f.kind = "bad" THEN "raise"
    ELSE IF f.fc # "color-mode" THEN "next"
    ELSE IF f.vkind = "none" THEN "raise"
    ELSE IF f.vkind = "missing" THEN "next"
    ELSE IF ScanValues(f.values, 1) = "exhausted" THEN "next"
    ELSE ScanValues(f.values, 1)

\* for func in light_resource.functions: ... return True
RECURSIVE ScanFunctions(_, _)
ScanFunctions(fs, i) ==
    IF i > Len(fs) THEN "exhausted"
    ELSE IF ScanDescriptor(fs[i]) = "next" THEN ScanFunctions(fs, i + 1)
    ELSE ScanDescriptor(fs[i])

\* The body of the try block: iterating an absent or None attribute raises.
ScanBody(functions) ==
    IF functions.kind # "list" THEN "raise" ELSE ScanFunctions(functions.items, 1)

\* try: <scan> except (AttributeError, TypeError): pass; return False
has_night_light_capability(functions) ==
    PyBool(ScanBody(functions) = "found")

\* The scan as src/test_night_light_switch.py writes it: no try/except, every
\* value of a color-mode descriptor is visited (no return, no break), and
\* len(func.get('values', [])) is taken first.
TestScanDescriptor(f) ==
    IF f.kind = "bad" THEN "raise"
    ELSE IF f.fc # "color-mode" THEN "next"
    ELSE IF f.vkind = "none" THEN "raise"
    ELSE IF f.vkind = "missing" THEN "next"
    ELSE IF \E j \in 1..Len(f.values) : f.values[j] = "nodict" THEN "raise"
    ELSE IF \E j \in 1..Len(f.values) : f.values[j] = "night-light" THEN "found"
    ELSE "next"

RECURSIVE TestScanFunctions(_, _, _)
TestScanFunctions(fs, i, flag) ==
    IF i > Len(fs) THEN PyBool(flag)
    ELSE IF TestScanDescriptor(fs[i]) = "raise" THEN "raise"
    ELSE TestScanFunctions(fs, i + 1, flag \/ TestScanDescriptor(fs[i]) = "found")

test_night_light_detection(functions) ==
    IF functions.kind # "list" THEN "raise"
    ELSE TestScanFunctions(functions.items, 1, FALSE)

---------------------------------------------------------------------------
(* Entities                                                                *)

\* HubspaceSwitch.__init__: the entity keeps its resource and its instance.
make_entity(rid, instance) ==
    [cls |-> "HubspaceSwitch", id |-> rid, instance |-> instance]

\* HubspaceNightLightSwitch.__init__: the entity keeps its light resource.
make_night_light_entity(lid) ==
    [cls |-> "HubspaceNightLightSwitch", id |-> lid, instance |-> "n/a"]

\* resource.on is a dict: a sequence of [key, feature] with distinct keys.
OnDicts(n) ==
    {d \in SeqsUpTo([key : Instances, feature : Features], n) :
        \A i, j \in 1..Len(d) : d[i].key = d[j].key => i = j}

DictKeys(d) == [i \in 1..Len(d) |-> d[i].key]

DictHas(d, k) == \E i \in 1..Len(d) : d[i].key = k

\* dict.get(k, None): the feature stored under k, "falsy" (None) when absent.
DictGet(d, k) ==
    IF DictHas(d, k) THEN d[CHOOSE i \in 1..Len(d) : d[i].key = k].feature
    ELSE "falsy"

\* dict[k] = v, keeping the position of an existing key.
DictSet(d, k, v) ==
    IF DictHas(d, k)
    THEN [i \in 1..Len(d) |-> IF d[i].key = k THEN [key |-> k, feature |-> v] ELSE d[i]]
    ELSE Append(d, [key |-> k, feature |-> v])

RECURSIVE Flatten(_)
Flatten(ss) == IF ss = <<>> THEN <<>> ELSE Head(ss) \o Flatten(Tail(ss))

\* The comprehension without its len(instances) == 1 escape.
get_unique_entities_no_none(rid, on) ==
    LET kept == SelectSeq(DictKeys(on), LAMBDA i : i # "None")
    IN  [n \in 1..Len(kept) |-> make_entity(rid, kept[n])]

\* [make_entity(r, i) for i in instances if len(instances) == 1 or i is not None]
get_unique_entities(rid, on) ==
    LET instances == DictKeys(on)
        kept == SelectSeq(instances,
                          LAMBDA i : Len(instances) = 1 \/ i # "None")
    IN  [n \in 1..Len(kept) |-> make_entity(rid, kept[n])]

get_night_light_entities(lid, light) ==
    IF has_night_light_capability(light.functions) = "True"
    THEN <<make_night_light_entity(lid)>>
    ELSE <<>>

---------------------------------------------------------------------------
(* Getters                                                                 *)

\* is_on without its except clause: reading .mode of an object that has none
\* escapes as an exception.
NightLightIsOnNoExcept(light) ==
    IF light.color_mode \in {"missing", "None"} THEN "False"
    ELSE IF light.color_mode = "nomode" THEN "raise"
    ELSE PyBool(light.color_mode = "night-light")

\* HubspaceNightLightSwitch.is_on: False when color_mode is absent or falsy,
\* False when reading .mode raises, else color_mode.mode == "night-light".
NightLightIsOn(light) ==
    IF light.color_mode \in {"missing", "None"} THEN "False"
    ELSE IF light.color_mode = "nomode" THEN "False"
    ELSE PyBool(light.color_mode = "night-light")

\* is_on coerced to a boolean: bool(feature and feature.on).
SwitchIsOnCoerced(on, instance) ==
    PyBool(DictGet(on, instance) = "on")

\* HubspaceSwitch.is_on: feature = resource.on.get(instance, None);
\* feature.on when the feature is truthy, otherwise None.
SwitchIsOn(on, instance) ==
    LET feature == DictGet(on, instance)
    IN  IF feature # "falsy" THEN PyBool(feature = "on") ELSE "None"

is_on(e) ==
    IF e.cls = "HubspaceSwitch"
    THEN SwitchIsOn(switchOn[e.id], e.instance)
    ELSE NightLightIsOn(lightRes[e.id])

---------------------------------------------------------------------------
(* Bridge requests                                                         *)

\* bridge.async_request_call(controller.set_state, device_id=..., **kwargs)
NightLightOnRequest(e) ==
    [ctl |-> "lights", device_id |-> e.id, on |-> TRUE,
     instance |-> "n/a", color_mode |-> "night-light"]

\* Turning the night light off by switching the light off.
NightLightOffRequestPowerOff(e) ==
    [ctl |-> "lights", device_id |-> e.id, on |-> FALSE,
     instance |-> "n/a", color_mode |-> "white"]

NightLightOffRequest(e) ==
    [ctl |-> "lights", device_id |-> e.id, on |-> TRUE,
     instance |-> "n/a", color_mode |-> "white"]

\* Turning a switch on without naming the instance.
SwitchOnRequestNoInstance(e) ==
    [ctl |-> "switches", device_id |-> e.id, on |-> TRUE,
     instance |-> "None", color_mode |-> "n/a"]

SwitchOnRequest(e) ==
    [ctl |-> "switches", device_id |-> e.id, on |-> TRUE,
     instance |-> e.instance, color_mode |-> "n/a"]

\* Turning a switch off with the keyword arguments of turning it on.
SwitchOffRequestOn(e) ==
    [ctl |-> "switches", device_id |-> e.id, on |-> TRUE,
     instance |-> e.instance, color_mode |-> "n/a"]

SwitchOffRequest(e) ==
    [ctl |-> "switches", device_id |-> e.id, on |-> FALSE,
     instance |-> e.instance, color_mode |-> "n/a"]

---------------------------------------------------------------------------
(* State                                                                   *)

AllEntities ==
    {make_entity(s, i) : s \in SwitchIds, i \in Instances}
    \cup {make_night_light_entity(l) : l \in LightIds}

\* The entities handed to async_add_entities so far.
AddedEntities == {Flatten(addCalls)[n] : n \in 1..Len(Flatten(addCalls))}

NoDict == <<>>
NoLight ==
    [functions |-> [kind |-> "list", items |-> <<>>], color_mode |-> "missing", on |-> FALSE]

ColorModeDescriptor(vs) ==
    [kind |-> "dict", fc |-> "color-mode", vkind |-> "list", values |-> vs]

PowerDescriptor ==
    [kind |-> "dict", fc |-> "power", vkind |-> "missing", values |-> <<>>]

\* Orders in which a controller may hold a set of resources.
Orders(S) ==
    {q \in SeqsUpTo(S, Cardinality(S)) : \A i, j \in 1..Len(q) : q[i] = q[j] => i = j}

Range(q) == {q[i] : i \in 1..Len(q)}

---------------------------------------------------------------------------
(* async_setup_entry and the RESOURCE_ADDED callbacks                      *)

\* for resource in controller: entities.extend(get_unique_entities(resource))
SetupSwitchEntities ==
    Flatten([n \in 1..Len(switchItems) |->
                get_unique_entities(switchItems[n], switchOn[switchItems[n]])])

\* for light_resource in light_controller:
\*     night_light_entities.extend(get_night_light_entities(light_resource))
SetupNightLightEntities ==
    Flatten([n \in 1..Len(lightItems) |->
                get_night_light_entities(lightItems[n], lightRes[lightItems[n]])])

\* all_entities = entities + night_light_entities
SetupAllEntities == SetupSwitchEntities \o SetupNightLightEntities

\* Setup that subscribes on the switch controller only.
SetupSubscriptionsSwitchOnly == {"switches"}

\* controller.subscribe(...) and light_controller.subscribe(...)
SetupSubscriptions == {"switches", "lights"}

\* Setup that registers the switch controller's handle only.
SetupUnloadHandlesSwitchOnly == {"switches"}

\* config_entry.async_on_unload(<unsubscribe handle>), once per subscription
SetupUnloadHandles == {"switches", "lights"}

\* async_add_entity: async_add_entities(get_unique_entities(hs_resource))
async_add_entity(s, d) == Append(addCalls, get_unique_entities(s, d))

\* async_add_light_entity:
\*     async_add_entities(get_night_light_entities(light_resource))
async_add_light_entity(l, light) ==
    Append(addCalls, get_night_light_entities(l, light))

AsyncSetupEntry ==
    /\ phase = "new"
    /\ addCalls' = Append(addCalls, SetupAllEntities)
    /\ subs' = subs \cup SetupSubscriptions
    /\ onUnload' = onUnload \cup SetupUnloadHandles
    /\ phase' = "setup"
    /\ UNCHANGED <<switchItems, lightItems, switchOn, lightRes, requests,
                   lastCmd, pc, ret, testRet>>

\* The switch controller learns of a resource and emits RESOURCE_ADDED; every
\* subscribed callback runs with it.
SwitchResourceAdded(s, d) ==
    /\ s \notin Range(switchItems)
    /\ switchItems' = Append(switchItems, s)
    /\ switchOn' = [switchOn EXCEPT ![s] = d]
    /\ addCalls' = IF "switches" \in subs THEN async_add_entity(s, d) ELSE addCalls
    /\ UNCHANGED <<lightItems, lightRes, phase, subs, onUnload, requests,
                   lastCmd, pc, ret, testRet>>

\* The light controller learns of a light and emits RESOURCE_ADDED.
LightResourceAdded(l, light) ==
    /\ l \notin Range(lightItems)
    /\ lightItems' = Append(lightItems, l)
    /\ lightRes' = [lightRes EXCEPT ![l] = light]
    /\ addCalls' = IF "lights" \in subs THEN async_add_light_entity(l, light)
                   ELSE addCalls
    /\ UNCHANGED <<switchItems, switchOn, phase, subs, onUnload, requests,
                   lastCmd, pc, ret, testRet>>

\* The config entry is unloaded: every handle given to async_on_unload is
\* called, which removes its subscription.
Unload ==
    /\ phase = "setup"
    /\ phase' = "unloaded"
    /\ subs' = subs \ onUnload
    /\ onUnload' = {}
    /\ UNCHANGED <<switchItems, lightItems, switchOn, lightRes, addCalls,
                   requests, lastCmd, pc, ret, testRet>>

---------------------------------------------------------------------------
(* Commands                                                                *)

\* An entity takes commands while it is registered, i.e. between its
\* async_add_entities call and the unload of the entry.
Commandable(e) ==
    /\ phase = "setup"
    /\ e \in AddedEntities
    /\ Len(requests) < MaxInFlight

Issue(e, cmd, request) ==
    /\ requests' = Append(requests, request)
    /\ lastCmd' = [lastCmd EXCEPT ![e] = cmd]
    /\ UNCHANGED <<switchItems, lightItems, switchOn, lightRes, phase, subs,
                   onUnload, addCalls, pc, ret, testRet>>

NightLightTurnOn(e) ==
    /\ e.cls = "HubspaceNightLightSwitch"
    /\ Commandable(e)
    /\ Issue(e, "on", NightLightOnRequest(e))

NightLightTurnOff(e) ==
    /\ e.cls = "HubspaceNightLightSwitch"
    /\ Commandable(e)
    /\ Issue(e, "off", NightLightOffRequest(e))

SwitchTurnOn(e) ==
    /\ e.cls = "HubspaceSwitch"
    /\ Commandable(e)
    /\ Issue(e, "on", SwitchOnRequest(e))

SwitchTurnOff(e) ==
    /\ e.cls = "HubspaceSwitch"
    /\ Commandable(e)
    /\ Issue(e, "off", SwitchOffRequest(e))

\* The device applies the oldest request in flight and the controller
\* updates the resource accordingly.
DeviceApply ==
    /\ requests # <<>>
    /\ LET r == Head(requests)
       IN  IF r.ctl = "switches"
           THEN /\ switchOn' = [switchOn EXCEPT ![r.device_id] =
                       DictSet(@, r.instance, IF r.on THEN "on" ELSE "off")]
                /\ UNCHANGED lightRes
           ELSE /\ lightRes' = [lightRes EXCEPT ![r.device_id] =
                       [@ EXCEPT !.color_mode = r.color_mode, !.on = r.on]]
                /\ UNCHANGED switchOn
    /\ requests' = Tail(requests)
    /\ UNCHANGED <<switchItems, lightItems, phase, subs, onUnload, addCalls,
                   lastCmd, pc, ret, testRet>>

---------------------------------------------------------------------------
(* Specifications                                                          *)

\* Function lists of the lights of the life-cycle specification: a light with
\* the night-light mode, one without, one whose list is None, and one with a
\* malformed descriptor ahead of the color-mode descriptor.
SetupFunctions ==
    {[kind |-> "list",
      items |-> <<PowerDescriptor, ColorModeDescriptor(<<"white", "night-light">>)>>],
     [kind |-> "list", items |-> <<ColorModeDescriptor(<<"white">>)>>],
     [kind |-> "none", items |-> <<>>],
     [kind |-> "list",
      items |-> <<BadDescriptor, ColorModeDescriptor(<<"night-light">>)>>]}

SetupLights ==
    {[functions |-> f, color_mode |-> "white", on |-> TRUE] : f \in SetupFunctions}

\* Setup reads the keys of resource.on only: the features are all off here.
SetupDicts ==
    {d \in OnDicts(MaxInstances) : \A i \in 1..Len(d) : d[i].feature = "off"}

Idle ==
    /\ requests = <<>>
    /\ lastCmd = [e \in AllEntities |-> "none"]
    /\ pc = "idle"
    /\ ret = "unset"
    /\ testRet = "unset"

NotSetUp ==
    /\ phase = "new"
    /\ subs = {}
    /\ onUnload = {}
    /\ addCalls = <<>>

\* Life cycle: any resources are present when the platform is set up.
Init ==
    /\ \E S \in SUBSET SwitchIds : switchItems \in Orders(S) /\ Range(switchItems) = S
    /\ \E L \in SUBSET LightIds : lightItems \in Orders(L) /\ Range(lightItems) = L
    /\ switchOn \in [SwitchIds -> SetupDicts]
    /\ \A s \in SwitchIds \ Range(switchItems) : switchOn[s] = NoDict
    /\ lightRes \in [LightIds -> SetupLights \cup {NoLight}]
    /\ \A l \in LightIds : lightRes[l] = NoLight <=> l \notin Range(lightItems)
    /\ NotSetUp
    /\ Idle

Next ==
    \/ AsyncSetupEntry
    \/ \E s \in SwitchIds, d \in SetupDicts : SwitchResourceAdded(s, d)
    \/ \E l \in LightIds, light \in SetupLights : LightResourceAdded(l, light)
    \/ Unload

Spec == Init /\ [][Next]_vars

\* Commands: switch s1 has any resource.on, switch s2 a single None instance
\* that is off, light l1 has the night-light mode and is in any color mode and
\* power state.
NightLightFunctions ==
    [kind |-> "list",
     items |-> <<PowerDescriptor, ColorModeDescriptor(<<"white", "night-light">>)>>]

InitCmd ==
    /\ switchItems = <<"s1", "s2">>
    /\ lightItems = <<"l1">>
    /\ \E d \in OnDicts(MaxInstances) :
          switchOn = [s \in SwitchIds |->
                        IF s = "s1" THEN d ELSE <<[key |-> "None", feature |-> "off"]>>]
    /\ \E m \in ColorModes, b \in BOOLEAN :
          lightRes = [l \in LightIds |->
                        IF l = "l1"
                        THEN [functions |-> NightLightFunctions, color_mode |-> m, on |-> b]
                        ELSE NoLight]
    /\ NotSetUp
    /\ Idle

NextCmd ==
    \/ AsyncSetupEntry
    \/ \E e \in AllEntities : NightLightTurnOn(e)
    \/ \E e \in AllEntities : NightLightTurnOff(e)
    \/ \E e \in AllEntities : SwitchTurnOn(e)
    \/ \E e \in AllEntities : SwitchTurnOff(e)
    \/ DeviceApply

SpecCmd == InitCmd /\ [][NextCmd]_vars

\* has_night_light_capability applied to any functions value, next to the
\* scan of the tests applied to the same value.
InitScan ==
    /\ switchItems = <<>>
    /\ lightItems = <<"l1">>
    /\ switchOn = [s \in SwitchIds |-> NoDict]
    /\ \E f \in FunctionsValues :
          lightRes = [l \in LightIds |->
                        IF l = "l1"
                        THEN [functions |-> f, color_mode |-> "white", on |-> TRUE]
                        ELSE NoLight]
    /\ NotSetUp
    /\ requests = <<>>
    /\ lastCmd = [e \in AllEntities |-> "none"]
    /\ pc = "call"
    /\ ret = "unset"
    /\ testRet = "unset"

CallScan ==
    /\ pc = "call"
    /\ ret' = has_night_light_capability(lightRes["l1"].functions)
    /\ testRet' = test_night_light_detection(lightRes["l1"].functions)
    /\ pc' = "done"
    /\ UNCHANGED <<switchItems, lightItems, switchOn, lightRes, phase, subs,
                   onUnload, addCalls, requests, lastCmd>>

SpecScan == InitScan /\ [][CallScan]_vars

\* get_unique_entities applied to any resource.on.
InitUnique ==
    /\ switchItems = <<"s1">>
    /\ lightItems = <<>>
    /\ \E d \in OnDicts(MaxInstances) :
          switchOn = [s \in SwitchIds |-> IF s = "s1" THEN d ELSE NoDict]
    /\ lightRes = [l \in LightIds |-> NoLight]
    /\ NotSetUp
    /\ requests = <<>>
    /\ lastCmd = [e \in AllEntities |-> "none"]
    /\ pc = "call"
    /\ ret = "unset"
    /\ testRet = "unset"

CallUnique ==
    /\ pc = "call"
    /\ ret' = get_unique_entities("s1", switchOn["s1"])
    /\ pc' = "done"
    /\ UNCHANGED <<switchItems, lightItems, switchOn, lightRes, phase, subs,
                   onUnload, addCalls, requests, lastCmd, testRet>>

SpecUnique == InitUnique /\ [][CallUnique]_vars

---------------------------------------------------------------------------
(* Properties                                                              *)

Count(q, x) == Cardinality({n \in 1..Len(q) : q[n] = x})

\* Some descriptor is a color-mode dict whose values list names "night-light".
HasNightLightValue(functions) ==
    /\ functions.kind = "list"
    /\ \E i \in 1..Len(functions.items) :
          /\ functions.items[i].kind = "dict"
          /\ functions.items[i].fc = "color-mode"
          /\ functions.items[i].vkind = "list"
          /\ \E j \in 1..Len(functions.items[i].values) :
                functions.items[i].values[j] = "night-light"

\* A list of dicts whose "values", where present, are lists of dicts.
WellFormed(functions) ==
    /\ functions.kind = "list"
    /\ \A i \in 1..Len(functions.items) :
          /\ functions.items[i].kind = "dict"
          /\ functions.items[i].vkind # "none"
          /\ \A j \in 1..Len(functions.items[i].values) :
                functions.items[i].values[j] # "nodict"

\* The entry has just been set up: no resource was announced since.
JustSetUp == phase = "setup" /\ Len(addCalls) = 1

\* C1: right after async_setup_entry, every light of the light controller whose
\* functions hold a color-mode descriptor with a "night-light" value has exactly
\* one night-light entity among the entities passed to async_add_entities, and
\* every other light has none.
C1_NightLightEntityPerCapableLight ==
    JustSetUp =>
        \A l \in Range(lightItems) :
            Count(Flatten(addCalls), make_night_light_entity(l)) =
                IF HasNightLightValue(lightRes[l].functions) THEN 1 ELSE 0

\* C6: has_night_light_capability returns True exactly when some descriptor is a
\* color-mode dict with a "night-light" value, False otherwise, never raises,
\* whatever the functions value (absent, None, malformed descriptors anywhere),
\* and agrees with the scan of the tests on well-formed input.
C6_CapabilityIffNightLightValue ==
    pc = "done" =>
        /\ ret = PyBool(HasNightLightValue(lightRes["l1"].functions))
        /\ WellFormed(lightRes["l1"].functions) => ret = testRet

IsSwitch(e) == e.cls = "HubspaceSwitch"
IsNightLight(e) == e.cls = "HubspaceNightLightSwitch"
PyBools == {"True", "False"}

\* The requests in flight that entity e issued.
InFlight(e) ==
    {k \in 1..Len(requests) :
        /\ requests[k].device_id = e.id
        /\ requests[k].ctl = (IF IsSwitch(e) THEN "switches" ELSE "lights")
        /\ requests[k].instance = e.instance}

\* C2: the night-light switch is on exactly when the light's current color mode
\* is "night-light"; in every other case (white or another mode, color_mode
\* absent or None) it is off, and the getter never raises.
C2_NightLightIsOnIffNightLightMode ==
    \A e \in AddedEntities :
        IsNightLight(e) =>
            is_on(e) = PyBool(lightRes[e.id].color_mode = "night-light")

C2_Witness ==
    \E e \in AddedEntities :
        /\ IsNightLight(e)
        /\ lastCmd[e] = "on"
        /\ requests = <<>>
        /\ lightRes[e.id].color_mode = "night-light"
        /\ is_on(e) = "True"

\* C3 as stated: is_on of every switch entity is True or False in every state
\* of its resource.
C3_IsOnAlwaysBoolean ==
    \A e \in AddedEntities : is_on(e) \in PyBools

\* C3 as amended: is_on of a night-light switch is always True or False; is_on
\* of a HubspaceSwitch is feature.on (True or False) when resource.on holds a
\* truthy feature for the entity's instance, and None otherwise.
C3_IsOnBooleanOrNone ==
    \A e \in AddedEntities :
        /\ IsNightLight(e) => is_on(e) \in PyBools
        /\ IsSwitch(e) =>
              IF DictGet(switchOn[e.id], e.instance) = "falsy"
              THEN is_on(e) = "None"
              ELSE is_on(e) = PyBool(DictGet(switchOn[e.id], e.instance) = "on")

C3_Witness ==
    \E e \in AddedEntities :
        /\ IsSwitch(e)
        /\ DictHas(switchOn[e.id], e.instance)
        /\ DictGet(switchOn[e.id], e.instance) = "falsy"
        /\ is_on(e) = "None"

C7_SwitchRequests ==
    /\ [](\A k \in 1..Len(requests) :
            requests[k].ctl = "switches" =>
                make_entity(requests[k].device_id, requests[k].instance)
                    \in AddedEntities)
    /\ [][\A e \in AllEntities :
            /\ SwitchTurnOn(e) =>
                  requests' = Append(requests,
                      [ctl |-> "switches", device_id |-> e.id, on |-> TRUE,
                       instance |-> e.instance, color_mode |-> "n/a"])
            /\ SwitchTurnOff(e) =>
                  requests' = Append(requests,
                      [ctl |-> "switches", device_id |-> e.id, on |-> FALSE,
                       instance |-> e.instance, color_mode |-> "n/a"])]_vars

\* A request is in flight for one instance of a resource with another instance.
C7_Witness ==
    \E k \in 1..Len(requests) :
        /\ requests[k].ctl = "switches"
        /\ requests[k].instance # "None"
        /\ \E e \in AddedEntities :
              /\ IsSwitch(e)
              /\ e.id = requests[k].device_id
              /\ e.instance # requests[k].instance

\* C8: once the device has applied every request of an entity, the entity's
\* is_on equals the last command issued on it: True after turn-on, False after
\* turn-off, for both entity classes, however often a command was repeated.
C8_IsOnMirrorsLastCommand ==
    \A e \in AddedEntities :
        (lastCmd[e] # "none" /\ InFlight(e) = {}) =>
            is_on(e) = PyBool(lastCmd[e] = "on")

C8_Witness ==
    /\ requests = <<>>
    /\ \E e \in AddedEntities :
          IsSwitch(e) /\ lastCmd[e] = "off" /\ is_on(e) = "False"
    /\ \E e \in AddedEntities :
          IsNightLight(e) /\ lastCmd[e] = "off" /\ is_on(e) = "False"

\* C9: get_unique_entities gives one HubspaceSwitch per instance key of
\* resource.on, except that the None instance gets one only when it is the sole
\* instance: one entity for a single instance (None included), one per non-None
\* instance and none for None when there are several, none for no instance,
\* and no two entities with the same instance.
C9_UniqueEntities ==
    pc = "done" =>
        LET on == switchOn["s1"]
            n == Len(on)
        IN  /\ \A m \in 1..Len(ret) : ret[m] \in {make_entity("s1", i) : i \in Instances}
            /\ \A i \in Instances :
                  Count(ret, make_entity("s1", i)) =
                      IF DictHas(on, i) /\ (n = 1 \/ i # "None") THEN 1 ELSE 0
            /\ n = 1 => Len(ret) = 1
            /\ n = 0 => ret = <<>>

\* Several instances, one of them None.
C9_Witness ==
    /\ pc = "done"
    /\ Len(switchOn["s1"]) > 1
    /\ DictHas(switchOn["s1"], "None")
    /\ Len(ret) = Len(switchOn["s1"]) - 1

\* The entities a resource yields under the rule of setup, as a sequence.
RuleEntities(e) ==
    IF IsSwitch(e) THEN get_unique_entities(e.id, switchOn[e.id])
    ELSE get_night_light_entities(e.id, lightRes[e.id])

Present(e) ==
    IF IsSwitch(e) THEN e.id \in Range(switchItems) ELSE e.id \in Range(lightItems)

Last(q) == q[Len(q)]

\* C5: async_setup_entry makes a single async_add_entities call holding, for the
\* resources then present, all plain switch entities followed by all night-light
\* entities, and subscribes on both controllers; while the entry is loaded every
\* resource announced later causes a call with exactly the entities the same
\* rule gives for it, so every resource present has its entities added.
C5_SetupAndLaterAdditions ==
    /\ [](phase = "setup" =>
            /\ subs = {"switches", "lights"}
            /\ \A e \in AllEntities :
                  Count(Flatten(addCalls), e) =
                      IF Present(e) THEN Count(RuleEntities(e), e) ELSE 0)
    /\ [][(phase = "new" /\ phase' = "setup") =>
            /\ Len(addCalls') = Len(addCalls) + 1
            /\ \E n \in 0..Len(Last(addCalls')) :
                  \A m \in 1..Len(Last(addCalls')) :
                      IF m <= n THEN IsSwitch(Last(addCalls')[m])
                      ELSE IsNightLight(Last(addCalls')[m])
            /\ \A e \in AllEntities :
                  Count(Last(addCalls'), e) =
                      IF Present(e) THEN Count(RuleEntities(e), e) ELSE 0]_vars
    /\ [][(phase = "setup" /\ phase' = "setup") =>
            /\ \A s \in SwitchIds :
                  (s \in Range(switchItems') \ Range(switchItems)) =>
                      addCalls' = Append(addCalls,
                                         get_unique_entities(s, switchOn'[s]))
            /\ \A l \in LightIds :
                  (l \in Range(lightItems') \ Range(lightItems)) =>
                      addCalls' = Append(addCalls,
                                         get_night_light_entities(l, lightRes'[l]))]_vars

\* Both kinds of entity were added at setup and both kinds by later events.
C5_Witness ==
    /\ phase = "setup"
    /\ \E m, n \in 1..Len(addCalls[1]) :
          IsSwitch(addCalls[1][m]) /\ IsNightLight(addCalls[1][n])
    /\ \E j, k \in 2..Len(addCalls) :
          /\ Len(addCalls[j]) > 0 /\ IsSwitch(addCalls[j][1])
          /\ Len(addCalls[k]) > 0 /\ IsNightLight(addCalls[k][1])

\* C10: the unsubscribe handles of both subscriptions are registered with
\* async_on_unload, so after the unload no subscription is left and no
\* resource-added event causes an async_add_entities call; before the unload
\* each resource-added event causes exactly one call.
C10_UnloadStopsAdditions ==
    /\ [](phase = "setup" => onUnload = {"switches", "lights"} /\ subs \subseteq onUnload)
    /\ [](phase = "unloaded" => subs = {})
    /\ [][phase = "unloaded" => addCalls' = addCalls]_vars
    /\ [][(phase = "setup" /\ (switchItems' # switchItems \/ lightItems' # lightItems)) =>
            Len(addCalls') = Len(addCalls) + 1]_vars

\* After the unload a light with the night-light mode was announced and got no
\* entity; before it an announcement caused a call with an empty list.
C10_Witness ==
    /\ phase = "unloaded"
    /\ \E l \in Range(lightItems) :
          /\ has_night_light_capability(lightRes[l].functions) = "True"
          /\ make_night_light_entity(l) \notin AddedEntities
    /\ \E k \in 2..Len(addCalls) : addCalls[k] = <<>>

====
